---- MODULE Spec2Model ----
(***************************************************************************)
(* A model of the HTTP/1.x codec, router and server accept loop of         *)
(* rust-http-practice (src/common.rs, src/server.rs, src/client.rs).       *)
(*                                                                         *)
(* Bytes and characters are one-character strings; a String, a Vec<u8> and *)
(* the content of a stream are sequences of them.  A HashMap is a function *)
(* whose domain is its key set.                                            *)
(***************************************************************************)
EXTENDS Integers, Sequences, FiniteSets, TLC

VARIABLES
    rules,      \* Router.rules: Vec<Rule>, each [method, path, handler]
    rreq,       \* the latest Router::handle call: [req, rules], or NoValue
    rres,       \* the result of the latest Router::handle call, or NoValue
    invoked,    \* the rule handlers the latest Router::handle call invoked, in order
    listen,     \* HttpServer::listen: "accept" (blocked in incoming()),
                \*   "handle" (inside self.handle), "returned" (the loop has ended)
    listenErr,  \* the Err listen returned, or "none"
    conn,       \* the number of connections accepted so far
    stream,     \* the accepted TcpStream: [sent, pos, status, out]
    chunks,     \* the number of writes the peer has made on the stream
    srv,        \* HttpServer::recv in progress: [pc, head, headers]
    exch,       \* the current exchange: [line, bodyStart, recv, hres, ret]
    cmsg,       \* codec: the message handed to send, or NoValue
    cwire,      \* codec: the bytes written by send followed by what the peer adds
    cextra,     \* codec: the bytes the stream holds after those of send
    cdec,       \* codec: what recv returned on cwire \o cextra, or NoValue
    cpc,        \* codec: "init", "sent", "received"
    cli         \* the caller's HttpClient: [pc, id, calls, nreq, nres, req, res, rpos,
                \*   head, headers, bodyStart]

vars == <<rules, rreq, rres, invoked, listen, listenErr, conn, stream, chunks,
          srv, exch, cmsg, cwire, cextra, cdec, cpc, cli>>

routerVars == <<rules, rreq, rres, invoked>>
clientVars == <<cli>>
serverVars == <<listen, listenErr, conn, stream, chunks, srv, exch>>
codecVars  == <<cmsg, cwire, cextra, cdec, cpc>>

NoValue == [none |-> TRUE]
Some(v) == [none |-> FALSE, val |-> v]

(***************************************************************************)
(* Characters and strings                                                  *)
(***************************************************************************)
CR == "\r"
LF == "\n"
SP == " "
CRLF == <<CR, LF>>

UpperCase == <<"A", "B", "C", "D", "E", "F", "G", "H", "I", "J", "K", "L", "M",
               "N", "O", "P", "Q", "R", "S", "T", "U", "V", "W", "X", "Y", "Z">>
LowerCase == <<"a", "b", "c", "d", "e", "f", "g", "h", "i", "j", "k", "l", "m",
               "n", "o", "p", "q", "r", "s", "t", "u", "v", "w", "x", "y", "z">>
Digits == <<"0", "1", "2", "3", "4", "5", "6", "7", "8", "9">>

\* char::to_ascii_lowercase
LowerChar(c) ==
    IF \E i \in 1..Len(UpperCase) : UpperCase[i] = c
    THEN LowerCase[CHOOSE i \in 1..Len(UpperCase) : UpperCase[i] = c]
    ELSE c

\* str::to_ascii_lowercase
ToAsciiLowercase(s) == [i \in 1..Len(s) |-> LowerChar(s[i])]

\* char::is_whitespace, on the characters of the model
IsWhitespace(c) == c \in {SP, "\t", CR, LF}

\* str::trim_start
RECURSIVE TrimStart(_)
TrimStart(s) ==
    IF s # <<>> /\ IsWhitespace(s[1]) THEN TrimStart(Tail(s)) ELSE s

\* str::trim_end_matches("\r\n"): strips every trailing repetition of CR LF
RECURSIVE TrimEndCRLF(_)
TrimEndCRLF(s) ==
    IF Len(s) >= 2 /\ s[Len(s) - 1] = CR /\ s[Len(s)] = LF
    THEN TrimEndCRLF(SubSeq(s, 1, Len(s) - 2))
    ELSE s

Contains(s, c) == \E i \in 1..Len(s) : s[i] = c
FirstIndex(s, c) == CHOOSE i \in 1..Len(s) : s[i] = c /\ \A j \in 1..(i - 1) : s[j] # c

\* str::splitn(n, sep) collected: at most n pieces, the last holding the rest
RECURSIVE Splitn(_, _, _)
Splitn(s, n, sep) ==
    IF n <= 1 \/ ~Contains(s, sep)
    THEN <<s>>
    ELSE LET i == FirstIndex(s, sep)
         IN  <<SubSeq(s, 1, i - 1)>> \o Splitn(SubSeq(s, i + 1, Len(s)), n - 1, sep)

DigitValue(c) == (CHOOSE i \in 1..Len(Digits) : Digits[i] = c) - 1
IsDigit(c) == \E i \in 1..Len(Digits) : Digits[i] = c

RECURSIVE DigitsValue(_)
DigitsValue(s) ==
    IF s = <<>> THEN 0
    ELSE 10 * DigitsValue(SubSeq(s, 1, Len(s) - 1)) + DigitValue(s[Len(s)])

\* str::parse::<usize>: an optional '+', then one or more decimal digits.
\* [some |-> FALSE] is Err(_); the strings of the model are far below usize::MAX.
ParseUsize(s) ==
    LET d == IF s # <<>> /\ s[1] = "+" THEN Tail(s) ELSE s
    IN  IF d # <<>> /\ \A i \in 1..Len(d) : IsDigit(d[i])
        THEN [some |-> TRUE, v |-> DigitsValue(d)]
        ELSE [some |-> FALSE]

\* Display for usize, as write!(.., "{}", body.len()) formats it
RECURSIVE FormatUsize(_)
FormatUsize(n) ==
    IF n < 10 THEN <<Digits[n + 1]>>
    ELSE FormatUsize(n \div 10) \o <<Digits[(n % 10) + 1]>>

(***************************************************************************)
(* Message model (src/common.rs)                                           *)
(***************************************************************************)
HttpMethod == {"GET", "POST"}
HttpVersion == {"HTTP1_0", "HTTP1_1", "UNSUPPORTED"}
HttpStatus == {"Ok", "NotFound", "Invalid"}

\* HttpMethod::to_string
MethodToString(m) ==
    IF m = "GET" THEN <<"G", "E", "T">> ELSE <<"P", "O", "S", "T">>

Http10Token == <<"H", "T", "T", "P", "/", "1", ".", "0">>
Http11Token == <<"H", "T", "T", "P", "/", "1", ".", "1">>
UnsupportedToken == <<"U", "N", "S", "U", "P", "P", "O", "R", "T", "E", "D">>

\* HttpVersion::string
VersionString(v) ==
    CASE v = "HTTP1_0" -> Http10Token
      [] v = "HTTP1_1" -> Http11Token
      [] OTHER -> UnsupportedToken

\* impl From<&str> for HttpVersion
VersionFrom(s) ==
    CASE s = Http10Token -> "HTTP1_0"
      [] s = Http11Token -> "HTTP1_1"
      [] OTHER -> "UNSUPPORTED"

\* HttpStatus::code, formatted with "{}"
StatusCode(st) ==
    CASE st = "Ok" -> <<"2", "0", "0">>
      [] st = "NotFound" -> <<"4", "0", "4">>
      [] OTHER -> <<"0">>

\* HttpStatus::string
StatusString(st) ==
    CASE st = "Ok" -> <<"O", "K">>
      [] st = "NotFound" -> <<"N", "o", "t", " ", "F", "o", "u", "n", "d">>
      [] OTHER -> <<>>

\* impl From<&str> for HttpStatus
StatusFrom(s) ==
    CASE s = <<"2", "0", "0">> -> "Ok"
      [] s = <<"4", "0", "4">> -> "NotFound"
      [] OTHER -> "Invalid"

\* Result values: Ok(v) and Err(e), e one of the HttpError variants
Ok(v) == [ok |-> TRUE, val |-> v]
Err(e) == [ok |-> FALSE, err |-> e]
HttpSyntaxError == "HttpSyntaxError"
IOError == "IOError"

\* HttpHeaders::new
NewHeaders == <<>>

ContentLengthKey ==
    <<"c", "o", "n", "t", "e", "n", "t", "-", "l", "e", "n", "g", "t", "h">>

\* HttpHeaders::contains_key
ContainsKey(h, k) == k \in DOMAIN h

\* an insert that keeps the value the key already has
Insert_KeepsFirst(h, k, v) ==
    [x \in (DOMAIN h) \cup {k} |-> IF x \in DOMAIN h THEN h[x] ELSE v]

\* HashMap::insert as read_from uses it: the new value replaces the old one
Insert(h, k, v) == [x \in (DOMAIN h) \cup {k} |-> IF x = k THEN v ELSE h[x]]

\* HttpHeaders::content_length: [some |-> FALSE] is None
ContentLength(h) ==
    IF ContainsKey(h, ContentLengthKey)
    THEN ParseUsize(h[ContentLengthKey])
    ELSE [some |-> FALSE]

(***************************************************************************)
(* Handlers and the router (src/server.rs)                                 *)
(***************************************************************************)
Request(m, p, v, h, b) ==
    [method |-> m, path |-> p, version |-> v, headers |-> h, body |-> b]
Response(v, st, h, b) ==
    [version |-> v, status |-> st, headers |-> h, body |-> b]

\* The route handlers of the model, each a fn(&mut HttpRequest) -> Result<..>:
\*   "ok"   the handler of the tests and of main: 200, no headers, no body
\*   "err"  the handler of test_router_add: fails with HttpSyntaxError
\*   "echo" a handler answering with the request's version, headers and body
Handlers == {"ok", "err", "echo"}

\* impl Handler for fn(&mut HttpRequest) -> Result<HttpResponse, HttpError>
HandlerFn(h, req) ==
    CASE h = "ok" -> Ok(Response("HTTP1_1", "Ok", NewHeaders, <<>>))
      [] h = "err" -> Err(HttpSyntaxError)
      [] OTHER -> Ok(Response(req.version, "Ok", req.headers, req.body))

Rule(m, p, h) == [method |-> m, path |-> p, handler |-> h]

\* The condition of the loop body of Router::handle
RuleMatches(rule, req) == req.method = rule.method /\ req.path = rule.path

\* The response Router::handle synthesizes when no rule matched
NotFoundResponse_Http11(req) == Response("HTTP1_1", "NotFound", NewHeaders, <<>>)
NotFoundResponse(req) == Response(req.version, "NotFound", NewHeaders, <<>>)

\* Router::handle from rule i on: the result, and the handlers it invoked
RECURSIVE RouterScan_LastWins(_, _, _)
RouterScan_LastWins(rs, req, i) ==
    LET j == Len(rs) + 1 - i
    IN  IF i > Len(rs)
        THEN [result |-> Ok(NotFoundResponse(req)), invoked |-> <<>>]
        ELSE IF RuleMatches(rs[j], req)
             THEN [result |-> HandlerFn(rs[j].handler, req),
                   invoked |-> <<rs[j].handler>>]
             ELSE RouterScan_LastWins(rs, req, i + 1)

RECURSIVE RouterScan(_, _, _)
RouterScan(rs, req, i) ==
    IF i > Len(rs)
    THEN [result |-> Ok(NotFoundResponse(req)), invoked |-> <<>>]
    ELSE IF RuleMatches(rs[i], req)
         THEN [result |-> HandlerFn(rs[i].handler, req),
               invoked |-> <<rs[i].handler>>]
         ELSE RouterScan(rs, req, i + 1)

\* impl Handler for Router
RouterHandle(rs, req) == RouterScan(rs, req, 1)

PathOk == <<"/", "o", "k">>
PathOkSlash == <<"/", "o", "k", "/">>
PathOkUpper == <<"/", "O", "K">>
RoutePaths == {PathOk, PathOkSlash, PathOkUpper}

MaxRules == 2

\* The requests handed to Router::handle
RouterRequests ==
    {Request(m, p, v, NewHeaders, b) :
        m \in HttpMethod, p \in RoutePaths, v \in {"HTTP1_0", "HTTP1_1"},
        b \in {<<>>, <<"a">>}}

\* Router::new
RouterNew == <<>>

\* an add that puts the new rule in front of the others
RouterAdd_Prepends(m, p, h) ==
    /\ Len(rules) < MaxRules
    /\ rules' = <<Rule(m, p, h)>> \o rules
    /\ UNCHANGED <<rreq, rres, invoked>>

\* Router::add
RouterAdd(m, p, h) ==
    /\ Len(rules) < MaxRules
    /\ rules' = Append(rules, Rule(m, p, h))
    /\ UNCHANGED <<rreq, rres, invoked>>

\* a call of Router::handle
RouterDispatch(req) ==
    /\ rreq' = [req |-> req, rules |-> rules]
    /\ rres' = RouterHandle(rules, req).result
    /\ invoked' = RouterHandle(rules, req).invoked
    /\ UNCHANGED rules

(***************************************************************************)
(* Codec: encoding (HttpHeaders::write_to, HttpClient::send,               *)
(* HttpServer::send)                                                       *)
(***************************************************************************)
\* The orders in which a HashMap with key set S may be iterated
Orders(S) ==
    {o \in [1..Cardinality(S) -> S] : \A k \in S : \E i \in 1..Cardinality(S) : o[i] = k}

\* HttpHeaders::write_to, the map iterated in the order `order`
RECURSIVE HeadersWriteTo(_, _)
HeadersWriteTo(h, order) ==
    IF order = <<>> THEN <<>>
    ELSE Head(order) \o <<":", SP>> \o h[Head(order)] \o CRLF
         \o HeadersWriteTo(h, Tail(order))

\* HttpClient::send: the bytes written to the stream
ClientSend_NoLength(req, order) ==
    MethodToString(req.method) \o <<SP>> \o req.path \o <<SP>>
        \o VersionString(req.version) \o CRLF
    \o HeadersWriteTo(req.headers, order)
    \o CRLF
    \o req.body

\* a send that adds the computed content-length whatever the headers hold
ClientSend_AlwaysAddsLength(req, order) ==
    MethodToString(req.method) \o <<SP>> \o req.path \o <<SP>>
        \o VersionString(req.version) \o CRLF
    \o HeadersWriteTo(req.headers, order)
    \o ContentLengthKey \o <<":", SP>> \o FormatUsize(Len(req.body)) \o CRLF
    \o CRLF
    \o req.body

\* HttpClient::send
ClientSend(req, order) ==
    MethodToString(req.method) \o <<SP>> \o req.path \o <<SP>>
        \o VersionString(req.version) \o CRLF
    \o HeadersWriteTo(req.headers, order)
    \o (IF ~ContainsKey(req.headers, ContentLengthKey)
        THEN ContentLengthKey \o <<":", SP>> \o FormatUsize(Len(req.body)) \o CRLF
        ELSE <<>>)
    \o CRLF
    \o req.body

\* HttpServer::send leaving the computed content-length out for an empty body
ServerSend_NoLengthForEmptyBody(resp, order) ==
    VersionString(resp.version) \o <<SP>> \o StatusCode(resp.status) \o <<SP>>
        \o StatusString(resp.status) \o CRLF
    \o HeadersWriteTo(resp.headers, order)
    \o (IF ~ContainsKey(resp.headers, ContentLengthKey) /\ resp.body # <<>>
        THEN ContentLengthKey \o <<":", SP>> \o FormatUsize(Len(resp.body)) \o CRLF
        ELSE <<>>)
    \o CRLF
    \o resp.body

\* HttpServer::send: the bytes written to the stream
ServerSend(resp, order) ==
    VersionString(resp.version) \o <<SP>> \o StatusCode(resp.status) \o <<SP>>
        \o StatusString(resp.status) \o CRLF
    \o HeadersWriteTo(resp.headers, order)
    \o (IF ~ContainsKey(resp.headers, ContentLengthKey)
        THEN ContentLengthKey \o <<":", SP>> \o FormatUsize(Len(resp.body)) \o CRLF
        ELSE <<>>)
    \o CRLF
    \o resp.body

(***************************************************************************)
(* Codec: decoding (HttpHeaders::read_from, HttpServer::recv,              *)
(* HttpClient::recv)                                                       *)
(***************************************************************************)
\* BufRead::read_line on the unread bytes `buf`: the line runs up to and
\* including the first LF, or to the end of the stream when there is none.
ReadLine(buf) ==
    LET n == IF Contains(buf, LF) THEN FirstIndex(buf, LF) ELSE Len(buf)
    IN  [line |-> SubSeq(buf, 1, n), rest |-> SubSeq(buf, n + 1, Len(buf))]

\* The request-line part of HttpServer::recv: Ok([method, path, version]) or Err
ParseRequestLine_DefaultVersion(line) ==
    LET tok == Splitn(TrimEndCRLF(line), 3, SP)
    IN  IF tok[1] \notin {MethodToString(m) : m \in HttpMethod}
        THEN Err(HttpSyntaxError)
        ELSE IF Len(tok) < 2
        THEN Err(HttpSyntaxError)
        ELSE Ok([method |-> CHOOSE m \in HttpMethod : MethodToString(m) = tok[1],
                 path |-> tok[2],
                 version |-> IF Len(tok) < 3 \/ VersionFrom(tok[3]) = "UNSUPPORTED"
                             THEN "HTTP1_1" ELSE VersionFrom(tok[3])])

\* a request line of zero bytes reported as an I/O failure
ParseRequestLine_EofIsIOError(line) ==
    LET tok == Splitn(TrimEndCRLF(line), 3, SP)
    IN  IF Len(line) = 0
        THEN Err(IOError)
        ELSE IF tok[1] \notin {MethodToString(m) : m \in HttpMethod}
        THEN Err(HttpSyntaxError)
        ELSE IF Len(tok) < 2
        THEN Err(HttpSyntaxError)
        ELSE IF Len(tok) < 3
        THEN Err(HttpSyntaxError)
        ELSE IF VersionFrom(tok[3]) = "UNSUPPORTED"
        THEN Err(HttpSyntaxError)
        ELSE Ok([method |-> CHOOSE m \in HttpMethod : MethodToString(m) = tok[1],
                 path |-> tok[2],
                 version |-> VersionFrom(tok[3])])

\* The request-line part of HttpServer::recv
ParseRequestLine(line) ==
    LET tok == Splitn(TrimEndCRLF(line), 3, SP)
    IN  IF tok[1] \notin {MethodToString(m) : m \in HttpMethod}
        THEN Err(HttpSyntaxError)
        ELSE IF Len(tok) < 2
        THEN Err(HttpSyntaxError)
        ELSE IF Len(tok) < 3
        THEN Err(HttpSyntaxError)
        ELSE IF VersionFrom(tok[3]) = "UNSUPPORTED"
        THEN Err(HttpSyntaxError)
        ELSE Ok([method |-> CHOOSE m \in HttpMethod : MethodToString(m) = tok[1],
                 path |-> tok[2],
                 version |-> VersionFrom(tok[3])])

\* a status line whose status token is not looked at
ParseStatusLine_AnyStatus(line) ==
    LET tok == Splitn(line, 3, SP)
    IN  IF VersionFrom(tok[1]) = "UNSUPPORTED"
        THEN Err(HttpSyntaxError)
        ELSE IF Len(tok) < 2
        THEN Err(HttpSyntaxError)
        ELSE Ok([version |-> VersionFrom(tok[1]), status |-> StatusFrom(tok[2])])

\* The status-line part of HttpClient::recv (the line is not trimmed)
ParseStatusLine(line) ==
    LET tok == Splitn(line, 3, SP)
    IN  IF VersionFrom(tok[1]) = "UNSUPPORTED"
        THEN Err(HttpSyntaxError)
        ELSE IF Len(tok) < 2
        THEN Err(HttpSyntaxError)
        ELSE IF StatusFrom(tok[2]) = "Invalid"
        THEN Err(HttpSyntaxError)
        ELSE Ok([version |-> VersionFrom(tok[1]), status |-> StatusFrom(tok[2])])

\* One iteration of the loop of HttpHeaders::read_from on the line read:
\* "err" (return Err), "end" (break) or "header" (insert and go on)
ParseHeaderLine_KeepsSpace(line) ==
    LET str == TrimEndCRLF(line)
        part == Splitn(str, 2, ":")
    IN  IF Len(line) = 0 THEN [kind |-> "err"]
        ELSE IF str = <<>> THEN [kind |-> "end"]
        ELSE IF Len(part) < 2 THEN [kind |-> "err"]
        ELSE [kind |-> "header", key |-> ToAsciiLowercase(part[1]),
              value |-> part[2]]

\* the end of the stream taken for the end of the header block
ParseHeaderLine_EofEndsBlock(line) ==
    LET str == TrimEndCRLF(line)
        part == Splitn(str, 2, ":")
    IN  IF str = <<>> THEN [kind |-> "end"]
        ELSE IF Len(part) < 2 THEN [kind |-> "err"]
        ELSE [kind |-> "header", key |-> ToAsciiLowercase(part[1]),
              value |-> TrimStart(part[2])]

\* One iteration of the loop of HttpHeaders::read_from on the line read
ParseHeaderLine(line) ==
    LET str == TrimEndCRLF(line)
        part == Splitn(str, 2, ":")
    IN  IF Len(line) = 0 THEN [kind |-> "err"]
        ELSE IF str = <<>> THEN [kind |-> "end"]
        ELSE IF Len(part) < 2 THEN [kind |-> "err"]
        ELSE [kind |-> "header", key |-> ToAsciiLowercase(part[1]),
              value |-> TrimStart(part[2])]

\* HttpHeaders::read_from on a stream that ends after `buf`
RECURSIVE HeadersReadFrom(_, _)
HeadersReadFrom(h, buf) ==
    LET rl == ReadLine(buf)
        hl == ParseHeaderLine(rl.line)
    IN  CASE hl.kind = "err" -> [result |-> Err(HttpSyntaxError), rest |-> rl.rest]
          [] hl.kind = "end" -> [result |-> Ok(h), rest |-> rl.rest]
          [] OTHER -> HeadersReadFrom(Insert(h, hl.key, hl.value), rl.rest)

\* The match on headers.content_length() in HttpServer::recv:
\* "empty" (Vec::new()) or "read_to_end"
ServerBodyMode_AsClient(h) ==
    IF ContentLength(h).some /\ ContentLength(h).v = 0 THEN "empty" ELSE "read_to_end"

ServerBodyMode(h) ==
    CASE ContentLength(h).some /\ ContentLength(h).v = 0 -> "empty"
      [] ContentLength(h).some -> "read_to_end"
      [] OTHER -> "empty"

\* a client that reads to the end of the stream whatever the length is
ClientBodyMode_ReadsOnZero(h) == "read_to_end"

\* a client that resolves the body as the server does
ClientBodyMode_AsServer(h) ==
    CASE ContentLength(h).some /\ ContentLength(h).v = 0 -> "empty"
      [] ContentLength(h).some -> "read_to_end"
      [] OTHER -> "empty"

\* The match on headers.content_length() in HttpClient::recv
ClientBodyMode(h) ==
    CASE ContentLength(h).some /\ ContentLength(h).v = 0 -> "empty"
      [] ContentLength(h).some -> "read_to_end"
      [] OTHER -> "read_to_end"

\* HttpServer::recv on a stream that ends after `buf`: the result, the bytes
\* left unread, and the number of bytes read up to the end of the header block
ServerRecv(buf) ==
    LET rl == ReadLine(buf)
        pl == ParseRequestLine(rl.line)
        hr == HeadersReadFrom(NewHeaders, rl.rest)
        toEnd == hr.result.ok /\ ServerBodyMode(hr.result.val) = "read_to_end"
    IN  IF ~pl.ok
        THEN [result |-> pl, rest |-> rl.rest, bodyStart |-> 0]
        ELSE IF ~hr.result.ok
        THEN [result |-> hr.result, rest |-> hr.rest, bodyStart |-> 0]
        ELSE [result |-> Ok(Request(pl.val.method, pl.val.path, pl.val.version,
                                    hr.result.val, IF toEnd THEN hr.rest ELSE <<>>)),
              rest |-> IF toEnd THEN <<>> ELSE hr.rest,
              bodyStart |-> Len(buf) - Len(hr.rest)]

\* HttpClient::recv on a stream that ends after `buf`
ClientRecv(buf) ==
    LET rl == ReadLine(buf)
        pl == ParseStatusLine(rl.line)
        hr == HeadersReadFrom(NewHeaders, rl.rest)
        toEnd == hr.result.ok /\ ClientBodyMode(hr.result.val) = "read_to_end"
    IN  IF ~pl.ok
        THEN [result |-> pl, rest |-> rl.rest, bodyStart |-> 0]
        ELSE IF ~hr.result.ok
        THEN [result |-> hr.result, rest |-> hr.rest, bodyStart |-> 0]
        ELSE [result |-> Ok(Response(pl.val.version, pl.val.status,
                                     hr.result.val, IF toEnd THEN hr.rest ELSE <<>>)),
              rest |-> IF toEnd THEN <<>> ELSE hr.rest,
              bodyStart |-> Len(buf) - Len(hr.rest)]

(***************************************************************************)
(* Inputs of the model                                                     *)
(***************************************************************************)
MaxBody == 2
MaxExtra == 1

BodyBytes == {"a", CR, LF}
ExtraBytes == {"a"}

\* The byte sequences of length at most n
BytesUpTo(n) == UNION {[1..k -> BodyBytes] : k \in 0..n}

HeaderX == <<"x">>
HeaderY == <<"y">>

\* Header collections read_from can have built: lower-cased names without a
\* colon, values without leading whitespace (one of them read from a line
\* that ended in a bare LF)
HeaderSets ==
    { NewHeaders,
      HeaderX :> <<"a">>,
      (HeaderX :> <<"a">>) @@ (HeaderY :> <<"b", SP, "c">>),
      HeaderX :> <<"a", LF>>,
      ContentLengthKey :> <<"0">>,
      ContentLengthKey :> <<"1">>,
      ContentLengthKey :> <<"+", "2">>,
      ContentLengthKey :> <<"z">> }

CodecPaths == {PathOk, <<"/">>}

CodecRequests ==
    {Request(m, p, v, h, b) :
        m \in HttpMethod, p \in CodecPaths, v \in HttpVersion,
        h \in HeaderSets, b \in BytesUpTo(MaxBody)}

CodecResponses ==
    {Response(v, st, h, b) :
        v \in HttpVersion, st \in HttpStatus,
        h \in HeaderSets, b \in BytesUpTo(MaxBody)}

(***************************************************************************)
(* The router on its own: Router::new, Router::add, Router::handle         *)
(***************************************************************************)
ServerIdle ==
    /\ listen = "accept"
    /\ listenErr = "none"
    /\ conn = 0
    /\ stream = [sent |-> <<>>, pos |-> 0, status |-> "open", out |-> <<>>]
    /\ chunks = 0
    /\ srv = [pc |-> "idle", head |-> NoValue, headers |-> NewHeaders]
    /\ exch = [line |-> NoValue, bodyStart |-> 0, recv |-> NoValue,
               hres |-> NoValue, ret |-> NoValue]

\* no HttpClient has been constructed
NoClient ==
    [pc |-> "none", id |-> 0, calls |-> 0, nreq |-> 0, nres |-> 0,
     req |-> NoValue, res |-> NoValue, rpos |-> 0,
     head |-> NoValue, headers |-> NewHeaders, bodyStart |-> 0]

ClientIdle == cli = NoClient

CodecIdle ==
    /\ cmsg = NoValue
    /\ cwire = <<>>
    /\ cextra = <<>>
    /\ cdec = NoValue
    /\ cpc = "init"

RouterInit ==
    /\ rules = RouterNew
    /\ rreq = NoValue
    /\ rres = NoValue
    /\ invoked = <<>>
    /\ ServerIdle
    /\ CodecIdle
    /\ ClientIdle

RouterNext ==
    \/ \E m \in HttpMethod, p \in RoutePaths, h \in Handlers :
          RouterAdd(m, p, h) /\ UNCHANGED <<serverVars, codecVars, clientVars>>
    \/ \E req \in RouterRequests :
          RouterDispatch(req) /\ UNCHANGED <<serverVars, codecVars, clientVars>>

RouterSpec == RouterInit /\ [][RouterNext]_vars

(***************************************************************************)
(* The codec on its own: a message is encoded by send, the peer may write  *)
(* more, the stream ends, and recv decodes it                              *)
(***************************************************************************)
CodecInit ==
    /\ rules = RouterNew
    /\ rreq = NoValue
    /\ rres = NoValue
    /\ invoked = <<>>
    /\ ServerIdle
    /\ CodecIdle
    /\ ClientIdle

\* HttpClient::send on a request built by the caller
ClientSendStep(req, order) ==
    /\ cpc = "init"
    /\ cmsg' = [kind |-> "request", msg |-> req]
    /\ cwire' = ClientSend(req, order)
    /\ cpc' = "sent"
    /\ UNCHANGED <<cextra, cdec>>

\* HttpServer::send on a response returned by a handler
ServerSendStep(resp, order) ==
    /\ cpc = "init"
    /\ cmsg' = [kind |-> "response", msg |-> resp]
    /\ cwire' = ServerSend(resp, order)
    /\ cpc' = "sent"
    /\ UNCHANGED <<cextra, cdec>>

\* the writing side puts one more byte on the stream before closing it
PeerAppend(b) ==
    /\ cpc = "sent"
    /\ Len(cextra) < MaxExtra
    /\ cextra' = Append(cextra, b)
    /\ UNCHANGED <<cmsg, cwire, cdec, cpc>>

\* HttpServer::recv on the closed stream
ServerRecvStep ==
    /\ cpc = "sent"
    /\ cmsg.kind = "request"
    /\ cdec' = ServerRecv(cwire \o cextra)
    /\ cpc' = "received"
    /\ UNCHANGED <<cmsg, cwire, cextra>>

\* HttpClient::recv on the closed stream
ClientRecvStep ==
    /\ cpc = "sent"
    /\ cmsg.kind = "response"
    /\ cdec' = ClientRecv(cwire \o cextra)
    /\ cpc' = "received"
    /\ UNCHANGED <<cmsg, cwire, cextra>>

CodecNext ==
    \/ \E req \in CodecRequests : \E order \in Orders(DOMAIN req.headers) :
          ClientSendStep(req, order) /\ UNCHANGED <<routerVars, serverVars, clientVars>>
    \/ \E resp \in CodecResponses : \E order \in Orders(DOMAIN resp.headers) :
          ServerSendStep(resp, order) /\ UNCHANGED <<routerVars, serverVars, clientVars>>
    \/ \E b \in ExtraBytes : PeerAppend(b) /\ UNCHANGED <<routerVars, serverVars, clientVars>>
    \/ ServerRecvStep /\ UNCHANGED <<routerVars, serverVars, clientVars>>
    \/ ClientRecvStep /\ UNCHANGED <<routerVars, serverVars, clientVars>>

CodecSpec == CodecInit /\ [][CodecNext]_vars

(***************************************************************************)
(* Claims about the router                                                 *)
(***************************************************************************)
MatchingRules(rs, req) ==
    {i \in 1..Len(rs) : rs[i].method = req.method /\ rs[i].path = req.path}

\* C3: Router::handle invokes the handler of the first rule, in insertion
\* order, whose method and path both equal the request's exactly, returns
\* that handler's result, and invokes no other handler.
C3_FirstMatchWins ==
    (rreq # NoValue /\ MatchingRules(rreq.rules, rreq.req) # {}) =>
        LET m == MatchingRules(rreq.rules, rreq.req)
            first == CHOOSE i \in m : \A j \in m : i <= j
        IN  /\ invoked = <<rreq.rules[first].handler>>
            /\ rres = HandlerFn(rreq.rules[first].handler, rreq.req)

\* a request matched by two rules with different handlers, the first one a
\* failing handler, and whose result is that of the first
C3_Witness ==
    /\ rreq # NoValue
    /\ Len(rreq.rules) = 2
    /\ MatchingRules(rreq.rules, rreq.req) = {1, 2}
    /\ rreq.rules[1].handler = "err"
    /\ rreq.rules[2].handler = "ok"
    /\ rres = Err(HttpSyntaxError)
    /\ invoked = <<"err">>

\* a request that differs from a rule only by the case of the path or by a
\* trailing slash is not dispatched to that rule
C3_WitnessExact ==
    /\ rreq # NoValue
    /\ Len(rreq.rules) = 2
    /\ rreq.req.path = PathOk
    /\ rreq.rules[1].path \in {PathOkSlash, PathOkUpper}
    /\ rreq.rules[1].method = rreq.req.method
    /\ MatchingRules(rreq.rules, rreq.req) = {2}
    /\ invoked = <<rreq.rules[2].handler>>

\* C4: when no rule matches (the empty rule list included), Router::handle
\* returns Ok with status NotFound, the request's version, no headers and an
\* empty body, and invokes no handler.
C4_NotFoundWhenNoMatch ==
    (rreq # NoValue /\ MatchingRules(rreq.rules, rreq.req) = {}) =>
        /\ rres.ok
        /\ rres.val.status = "NotFound"
        /\ rres.val.version = rreq.req.version
        /\ DOMAIN rres.val.headers = {}
        /\ rres.val.body = <<>>
        /\ invoked = <<>>

\* an HTTP/1.0 request whose path is that of a rule with the other method and
\* whose method is that of a rule with another path
C4_Witness ==
    /\ rreq # NoValue
    /\ Len(rreq.rules) = 2
    /\ rreq.req.version = "HTTP1_0"
    /\ rreq.rules[1].path = rreq.req.path
    /\ rreq.rules[1].method # rreq.req.method
    /\ rreq.rules[2].method = rreq.req.method
    /\ rreq.rules[2].path # rreq.req.path
    /\ rres.ok
    /\ rres.val.status = "NotFound"
    /\ rres.val.version = "HTTP1_0"

(***************************************************************************)
(* Claims about the codec                                                  *)
(***************************************************************************)
\* The encoded message seen from outside: the header block ends at the first
\* CR LF CR LF, its lines are separated by CR LF, the body follows.
IsCRLFAt(w, i) == i + 1 <= Len(w) /\ w[i] = CR /\ w[i + 1] = LF
HasBlankLine(w) == \E i \in 1..Len(w) : IsCRLFAt(w, i) /\ IsCRLFAt(w, i + 2)
BlankLinePos(w) ==
    CHOOSE i \in 1..Len(w) :
        /\ IsCRLFAt(w, i) /\ IsCRLFAt(w, i + 2)
        /\ \A j \in 1..(i - 1) : ~(IsCRLFAt(w, j) /\ IsCRLFAt(w, j + 2))
WireBody(w) == SubSeq(w, BlankLinePos(w) + 4, Len(w))

RECURSIVE SplitCRLF(_)
SplitCRLF(s) ==
    IF \E i \in 1..Len(s) : IsCRLFAt(s, i)
    THEN LET i == CHOOSE i \in 1..Len(s) :
                    IsCRLFAt(s, i) /\ \A j \in 1..(i - 1) : ~IsCRLFAt(s, j)
         IN  <<SubSeq(s, 1, i - 1)>> \o SplitCRLF(SubSeq(s, i + 2, Len(s)))
    ELSE <<s>>

\* the lines of the message before its blank line, the first line included
WireHeadLines(w) == SplitCRLF(SubSeq(w, 1, BlankLinePos(w) - 1))

ContentLengthPrefix == ContentLengthKey \o <<":", SP>>
IsContentLengthLine(l) ==
    /\ Len(l) >= Len(ContentLengthPrefix)
    /\ SubSeq(l, 1, Len(ContentLengthPrefix)) = ContentLengthPrefix
LineValue(l) == SubSeq(l, Len(ContentLengthPrefix) + 1, Len(l))

\* C5: a message whose headers do not contain content-length is encoded, by
\* HttpClient::send and by HttpServer::send, with a content-length line whose
\* value is the number of body bytes written after the blank line.
C5_ComputedContentLength ==
    (cpc # "init" /\ ~ContainsKey(cmsg.msg.headers, ContentLengthKey)) =>
        /\ HasBlankLine(cwire)
        /\ WireBody(cwire) = cmsg.msg.body
        /\ \E i \in 2..Len(WireHeadLines(cwire)) :
              IsContentLengthLine(WireHeadLines(cwire)[i])
        /\ \A i \in 2..Len(WireHeadLines(cwire)) :
              IsContentLengthLine(WireHeadLines(cwire)[i]) =>
                  LineValue(WireHeadLines(cwire)[i]) = FormatUsize(Len(WireBody(cwire)))

\* a response with another header and a two-byte body was encoded
C5_Witness ==
    /\ cpc = "sent"
    /\ cmsg.kind = "response"
    /\ DOMAIN cmsg.msg.headers = {HeaderX}
    /\ Len(cmsg.msg.body) = 2
    /\ \E i \in 2..Len(WireHeadLines(cwire)) :
          WireHeadLines(cwire)[i] = ContentLengthPrefix \o <<"2">>

\* the headers a decoded request must have for the round trip to hold: those
\* of the original, with content-length giving the body length
RoundTripHeaders(orig, dec, body) ==
    /\ DOMAIN dec = DOMAIN orig \cup {ContentLengthKey}
    /\ \A k \in DOMAIN orig \ {ContentLengthKey} : dec[k] = orig[k]
    /\ ContentLength(dec).some
    /\ ContentLength(dec).v = Len(body)

RoundTripHolds ==
    /\ cdec.result.ok
    /\ cdec.result.val.method = cmsg.msg.method
    /\ cdec.result.val.path = cmsg.msg.path
    /\ cdec.result.val.version = cmsg.msg.version
    /\ cdec.result.val.body = cmsg.msg.body
    /\ RoundTripHeaders(cmsg.msg.headers, cdec.result.val.headers, cmsg.msg.body)

RoundTripCase ==
    /\ cpc = "received"
    /\ cmsg.kind = "request"
    /\ cextra = <<>>
    /\ cmsg.msg.version \in {"HTTP1_0", "HTTP1_1"}

NoLineFeedInValues(h) == \A k \in DOMAIN h : ~Contains(h[k], LF)

\* C6 as stated: every request with a supported version and unique
\* lower-cased header names, encoded by HttpClient::send and decoded by
\* HttpServer::recv, comes back equal, its content-length giving the body
\* length.  (Stated here for header values without a line feed only, which
\* is enough to refute it.)
C6_RoundTripAnyHeaders ==
    (RoundTripCase /\ NoLineFeedInValues(cmsg.msg.headers)) => RoundTripHolds

\* C6 as amended: the round trip holds when, in addition, no header value
\* contains a line feed and the headers have no content-length entry or one
\* that parses to the body length (send then writes the entry as it is).
C6_RoundTrip ==
    ( /\ RoundTripCase
      /\ NoLineFeedInValues(cmsg.msg.headers)
      /\ ContainsKey(cmsg.msg.headers, ContentLengthKey) =>
            /\ ContentLength(cmsg.msg.headers).some
            /\ ContentLength(cmsg.msg.headers).v = Len(cmsg.msg.body) )
    => /\ RoundTripHolds
       /\ ContainsKey(cmsg.msg.headers, ContentLengthKey) =>
             cdec.result.val.headers = cmsg.msg.headers

\* a POST with two headers and a body holding CR LF went through the round trip
C6_Witness ==
    /\ RoundTripCase
    /\ cmsg.msg.method = "POST"
    /\ DOMAIN cmsg.msg.headers = {HeaderX, HeaderY}
    /\ cmsg.msg.body = CRLF
    /\ RoundTripHolds
    /\ cdec.result.val.headers[ContentLengthKey] = <<"2">>

\* C9: when the response headers carry content-length N and the stream holds
\* at least N bytes after the blank line, the body HttpClient::recv returns is
\* those N bytes and no more.
C9_ClientBodyIsExactlyN ==
    ( /\ cpc = "received"
      /\ cmsg.kind = "response"
      /\ cdec.result.ok
      /\ ContentLength(cdec.result.val.headers).some
      /\ Len(cwire \o cextra) - cdec.bodyStart
            >= ContentLength(cdec.result.val.headers).v )
    => cdec.result.val.body =
          SubSeq(cwire \o cextra, cdec.bodyStart + 1,
                 cdec.bodyStart + ContentLength(cdec.result.val.headers).v)

(***************************************************************************)
(* The server: HttpServer::listen accepting connections one at a time,     *)
(* each peer writing bytes, closing or resetting its connection            *)
(***************************************************************************)
MaxConns == 2
MaxChunks == 4

GetToken == <<"G", "E", "T">>
PostToken == <<"P", "O", "S", "T">>
PutToken == <<"P", "U", "T">>

\* What a peer writes in one write: a request line (well-formed, with two
\* tokens, with an unknown method, with an unknown version), a header line,
\* the blank line, or one byte
PeerChunks ==
    { GetToken \o <<SP>> \o PathOk \o <<SP>> \o Http11Token \o CRLF,
      PostToken \o <<SP>> \o PathOk \o <<SP>> \o Http10Token \o CRLF,
      GetToken \o <<SP>> \o PathOk \o CRLF,
      PutToken \o <<SP>> \o PathOk \o <<SP>> \o Http11Token \o CRLF,
      GetToken \o <<SP>> \o PathOk \o <<SP>> \o <<"F", "O", "O">> \o CRLF,
      <<"C", "o", "n", "t", "e", "n", "t", "-", "L", "e", "n", "g", "t", "h",
        ":", SP, "1">> \o CRLF,
      CRLF,
      <<"a">> }

\* The router main and the tests set up, with a failing handler beside it
ServerRules == <<Rule("GET", PathOk, "ok"), Rule("POST", PathOk, "err")>>

\* the bytes of the stream HttpServer::recv has not read yet
Unread == SubSeq(stream.sent, stream.pos + 1, Len(stream.sent))

NewStream == [sent |-> <<>>, pos |-> 0, status |-> "open", out |-> <<>>]
NewExchange ==
    [line |-> NoValue, bodyStart |-> 0, recv |-> NoValue, hres |-> NoValue,
     ret |-> NoValue]

Init ==
    /\ rules = ServerRules
    /\ rreq = NoValue
    /\ rres = NoValue
    /\ invoked = <<>>
    /\ ServerIdle
    /\ CodecIdle
    /\ ClientIdle

\* HttpServer::handle once recv has returned `rr`, on a stream in state
\* `status`: what the handler returned, the bytes written, and the result.
\* (One outcome for each order in which the response headers may be written.)
HandleOutcomes_AnswersFailure(rs, rr, status) ==
    IF ~rr.ok
    THEN {[hres |-> NoValue, out |-> <<>>, ret |-> Err(rr.err)]}
    ELSE LET hr == RouterHandle(rs, rr.val).result
         IN  IF ~hr.ok
             THEN {[hres |-> hr,
                    out |-> ServerSend(NotFoundResponse(rr.val), <<>>),
                    ret |-> Err(hr.err)]}
             ELSE IF status = "reset"
             THEN {[hres |-> hr, out |-> <<>>, ret |-> Err(IOError)]}
             ELSE {[hres |-> hr, out |-> ServerSend(hr.val, order), ret |-> Ok(<<>>)] :
                      order \in Orders(DOMAIN hr.val.headers)}

HandleOutcomes(rs, rr, status) ==
    IF ~rr.ok
    THEN {[hres |-> NoValue, out |-> <<>>, ret |-> Err(rr.err)]}
    ELSE LET hr == RouterHandle(rs, rr.val).result
         IN  IF ~hr.ok
             THEN {[hres |-> hr, out |-> <<>>, ret |-> Err(hr.err)]}
             ELSE IF status = "reset"
             THEN {[hres |-> hr, out |-> <<>>, ret |-> Err(IOError)]}
             ELSE {[hres |-> hr, out |-> ServerSend(hr.val, order), ret |-> Ok(<<>>)] :
                      order \in Orders(DOMAIN hr.val.headers)}

\* HttpServer::listen after self.handle returned `ret`: `?` ends the loop on Err
ListenAfter(ret) == IF ret.ok THEN "accept" ELSE "returned"

\* read_line and read_to_end block while the stream is open and the bytes
\* they wait for have not come
LineReady == Contains(Unread, LF) \/ stream.status = "closed"
EndReady == stream.status = "closed"

\* the rest of HttpServer::handle and the return to listen, recv having
\* returned `rr` after reading `n` more bytes
Finish(rr, n, line, bodyStart) ==
    \E o \in HandleOutcomes(rules, rr, stream.status) :
        /\ exch' = [line |-> line, bodyStart |-> bodyStart, recv |-> rr,
                    hres |-> o.hres, ret |-> o.ret]
        /\ stream' = [stream EXCEPT !.pos = @ + n, !.out = o.out]
        /\ srv' = [srv EXCEPT !.pc = "done"]
        /\ listen' = ListenAfter(o.ret)
        /\ listenErr' = IF o.ret.ok THEN "none" ELSE o.ret.err
        /\ UNCHANGED <<conn, chunks>>

\* an accept that does not wait for self.handle to return
Accept_WhileHandling ==
    /\ listen \in {"accept", "handle"}
    /\ conn < MaxConns
    /\ conn' = conn + 1
    /\ listen' = "handle"
    /\ stream' = NewStream
    /\ chunks' = 0
    /\ srv' = [pc |-> "request_line", head |-> NoValue, headers |-> NewHeaders]
    /\ exch' = NewExchange
    /\ UNCHANGED listenErr

\* listener.incoming() yields a connection and listen calls self.handle
Accept ==
    /\ listen = "accept"
    /\ conn < MaxConns
    /\ conn' = conn + 1
    /\ listen' = "handle"
    /\ stream' = NewStream
    /\ chunks' = 0
    /\ srv' = [pc |-> "request_line", head |-> NoValue, headers |-> NewHeaders]
    /\ exch' = NewExchange
    /\ UNCHANGED listenErr

\* listener.incoming() yields Err: `stream.map_err(HttpError::from)?`
AcceptFails ==
    /\ listen = "accept"
    /\ conn < MaxConns
    /\ listen' = "returned"
    /\ listenErr' = IOError
    /\ UNCHANGED <<conn, stream, chunks, srv, exch>>

PeerWrite(c) ==
    /\ listen = "handle"
    /\ stream.status = "open"
    /\ chunks < MaxChunks
    /\ stream' = [stream EXCEPT !.sent = @ \o c]
    /\ chunks' = chunks + 1
    /\ UNCHANGED <<listen, listenErr, conn, srv, exch>>

PeerClose ==
    /\ listen = "handle"
    /\ stream.status = "open"
    /\ stream' = [stream EXCEPT !.status = "closed"]
    /\ UNCHANGED <<listen, listenErr, conn, chunks, srv, exch>>

PeerReset ==
    /\ listen = "handle"
    /\ stream.status = "open"
    /\ stream' = [stream EXCEPT !.status = "reset"]
    /\ UNCHANGED <<listen, listenErr, conn, chunks, srv, exch>>

\* HttpServer::recv: read_line and the parsing of the request line
RecvRequestLine ==
    /\ listen = "handle"
    /\ srv.pc = "request_line"
    /\ LineReady
    /\ LET rl == ReadLine(Unread)
           pl == ParseRequestLine(rl.line)
       IN  IF pl.ok
           THEN /\ srv' = [pc |-> "headers", head |-> pl.val, headers |-> NewHeaders]
                /\ stream' = [stream EXCEPT !.pos = @ + Len(rl.line)]
                /\ exch' = [exch EXCEPT !.line = Some(rl.line)]
                /\ UNCHANGED <<listen, listenErr, conn, chunks>>
           ELSE Finish(pl, Len(rl.line), Some(rl.line), 0)

\* HttpServer::recv: one iteration of the loop of headers.read_from and, at
\* the blank line, the bodies that need no read
RecvHeaderLine ==
    /\ listen = "handle"
    /\ srv.pc = "headers"
    /\ LineReady
    /\ LET rl == ReadLine(Unread)
           hl == ParseHeaderLine(rl.line)
           end == stream.pos + Len(rl.line)
       IN  CASE hl.kind = "err" ->
                    Finish(Err(HttpSyntaxError), Len(rl.line), exch.line, 0)
             [] hl.kind = "header" ->
                    /\ srv' = [srv EXCEPT !.headers = Insert(@, hl.key, hl.value)]
                    /\ stream' = [stream EXCEPT !.pos = end]
                    /\ UNCHANGED <<listen, listenErr, conn, chunks, exch>>
             [] OTHER ->
                    IF ServerBodyMode(srv.headers) = "empty"
                    THEN Finish(Ok(Request(srv.head.method, srv.head.path,
                                           srv.head.version, srv.headers, <<>>)),
                                Len(rl.line), exch.line, end)
                    ELSE /\ srv' = [srv EXCEPT !.pc = "body"]
                         /\ stream' = [stream EXCEPT !.pos = end]
                         /\ exch' = [exch EXCEPT !.bodyStart = end]
                         /\ UNCHANGED <<listen, listenErr, conn, chunks>>

\* HttpServer::recv: reader.read_to_end(&mut body)
RecvBody ==
    /\ listen = "handle"
    /\ srv.pc = "body"
    /\ EndReady
    /\ Finish(Ok(Request(srv.head.method, srv.head.path, srv.head.version,
                         srv.headers, Unread)),
              Len(Unread), exch.line, exch.bodyStart)

\* a read on a connection the peer has reset fails: map_err(HttpError::from)
RecvIOError ==
    /\ listen = "handle"
    /\ srv.pc \in {"request_line", "headers", "body"}
    /\ stream.status = "reset"
    /\ Finish(Err(IOError), 0, exch.line, exch.bodyStart)

Next ==
    \/ Accept /\ UNCHANGED <<routerVars, codecVars, clientVars>>
    \/ AcceptFails /\ UNCHANGED <<routerVars, codecVars, clientVars>>
    \/ \E c \in PeerChunks : PeerWrite(c) /\ UNCHANGED <<routerVars, codecVars, clientVars>>
    \/ PeerClose /\ UNCHANGED <<routerVars, codecVars, clientVars>>
    \/ PeerReset /\ UNCHANGED <<routerVars, codecVars, clientVars>>
    \/ RecvRequestLine /\ UNCHANGED <<routerVars, codecVars, clientVars>>
    \/ RecvHeaderLine /\ UNCHANGED <<routerVars, codecVars, clientVars>>
    \/ RecvBody /\ UNCHANGED <<routerVars, codecVars, clientVars>>
    \/ RecvIOError /\ UNCHANGED <<routerVars, codecVars, clientVars>>

Spec == Init /\ [][Next]_vars

(***************************************************************************)
(* Claims about the server                                                 *)
(***************************************************************************)
ExchangeFailed == exch.ret # NoValue /\ ~exch.ret.ok
Decoded == exch.recv # NoValue /\ exch.recv.ok

\* C1: when the exchange on a connection fails (decode error, I/O failure or
\* handler failure), listen abandons that connection only: the accept loop
\* has not ended.
C1_ListenSurvivesFailure == ExchangeFailed => listen # "returned"

\* C2: with content-length N > 0, HttpServer::recv stops waiting as soon as
\* N bytes follow the blank line, and the body it returns is exactly those N
\* bytes even when more follow.
C2_ServerBodyIsExactlyN ==
    /\ ( /\ listen = "handle"
         /\ srv.pc = "body"
         /\ Len(Unread) >= ContentLength(srv.headers).v )
       => (EndReady \/ stream.status = "reset")
    /\ ( /\ Decoded
         /\ ContentLength(exch.recv.val.headers).some
         /\ ContentLength(exch.recv.val.headers).v > 0
         /\ Len(stream.sent) - exch.bodyStart >= ContentLength(exch.recv.val.headers).v )
       => exch.recv.val.body =
             SubSeq(stream.sent, exch.bodyStart + 1,
                    exch.bodyStart + ContentLength(exch.recv.val.headers).v)

\* the request line as the claim reads it: tokens delimited by single spaces
RequestLineTokens(line) == Splitn(TrimEndCRLF(line), 3, SP)
MalformedRequestLine(line) ==
    \/ Len(RequestLineTokens(line)) < 3
    \/ RequestLineTokens(line)[1] \notin {GetToken, PostToken}
    \/ RequestLineTokens(line)[3] \notin {Http10Token, Http11Token}

\* C7: a request line with fewer than three tokens, a method other than GET
\* and POST, or a version other than HTTP/1.0 and HTTP/1.1 makes
\* HttpServer::recv fail with HttpSyntaxError: no request is built from it,
\* the handler is not invoked and nothing is written.
C7_MalformedRequestLineIsSyntaxError ==
    (exch.line # NoValue /\ MalformedRequestLine(exch.line.val)) =>
        /\ exch.recv = Err(HttpSyntaxError)
        /\ srv.head = NoValue
        /\ exch.hres = NoValue
        /\ stream.out = <<>>

\* a request line with an unknown version token has been read and refused
C7_Witness ==
    /\ exch.line # NoValue
    /\ Len(RequestLineTokens(exch.line.val)) = 3
    /\ RequestLineTokens(exch.line.val)[1] = GetToken
    /\ RequestLineTokens(exch.line.val)[3] = <<"F", "O", "O">>
    /\ exch.recv = Err(HttpSyntaxError)
    /\ srv.pc = "done"

\* C8: when the handler fails, HttpServer::handle writes no byte on the
\* connection, and bytes are written only once the handler has returned Ok.
C8_NoResponseOnHandlerFailure ==
    /\ (exch.hres # NoValue /\ ~exch.hres.ok) => stream.out = <<>>
    /\ stream.out # <<>> => (exch.hres # NoValue /\ exch.hres.ok)

\* a POST was decoded, its handler failed, and the exchange ended
C8_Witness ==
    /\ Decoded
    /\ exch.recv.val.method = "POST"
    /\ exch.hres = Err(HttpSyntaxError)
    /\ exch.ret = Err(HttpSyntaxError)
    /\ stream.out = <<>>

\* C10: without a content-length header HttpServer::recv returns an empty
\* body and reads nothing after the blank line: it never waits for the end
\* of the stream.
C10_NoLengthNoBodyRead ==
    /\ (listen = "handle" /\ srv.pc = "body") =>
          ContainsKey(srv.headers, ContentLengthKey)
    /\ (Decoded /\ ~ContainsKey(exch.recv.val.headers, ContentLengthKey)) =>
          /\ exch.recv.val.body = <<>>
          /\ stream.pos = exch.bodyStart

\* a request without content-length was decoded and answered while its
\* connection was open and held an unread byte after the blank line
C10_Witness ==
    /\ Decoded
    /\ ~ContainsKey(exch.recv.val.headers, ContentLengthKey)
    /\ exch.recv.val.body = <<>>
    /\ stream.status = "open"
    /\ Len(stream.sent) > stream.pos
    /\ stream.out # <<>>

(***************************************************************************)
(* Client and server together: a caller drives HttpClient::new and         *)
(* HttpClient::request against the listening server.                       *)
(*                                                                         *)
(* The kernel queues a connection, and what is written on it, until the    *)
(* server accepts; the server cannot tell the difference, so the client's  *)
(* writes and its drop are taken after the accept.  HttpServer::handle     *)
(* flushes the response and drops the stream with nothing in between, so   *)
(* the client sees the response and the end of the stream together.        *)
(* HttpClient::get is HttpClient::new, one request, and the drop.          *)
(*                                                                         *)
(* reader.read_to_end in HttpServer::recv returns at the end of the        *)
(* stream, which this client brings only by being dropped; request() keeps *)
(* the client borrowed until its recv returns, so the step RecvBody of the *)
(* server never becomes enabled here and is not listed.                    *)
(***************************************************************************)
MaxRequests == 2

ClientRequests ==
    {Request(m, p, v, NewHeaders, b) :
        m \in HttpMethod, p \in {PathOk, PathOkSlash},
        v \in {"HTTP1_0", "HTTP1_1"}, b \in {<<>>, <<"a">>}}

SingleRule == <<Rule("GET", PathOk, "ok")>>

ClientServerInit ==
    /\ rules \in {SingleRule, ServerRules}
    /\ rreq = NoValue
    /\ rres = NoValue
    /\ invoked = <<>>
    /\ ServerIdle
    /\ CodecIdle
    /\ ClientIdle

\* the server has dropped the accepted stream of the client's connection
ServerClosed == cli.id = conn /\ srv.pc = "done"

\* what the server wrote and the client has not read
ClientUnread == SubSeq(stream.out, cli.rpos + 1, Len(stream.out))

\* HttpClient::new: TcpStream::connect; an earlier client has been dropped
ClientNew ==
    /\ cli.pc \in {"none", "dropped"}
    /\ listen = "accept"
    /\ conn < MaxConns
    /\ cli' = [NoClient EXCEPT !.pc = "idle", !.id = conn + 1]
    /\ UNCHANGED serverVars

\* the server accepts the connection the client has made
ClientAccepted ==
    /\ cli.pc = "idle"
    /\ cli.id = conn + 1
    /\ Accept
    /\ UNCHANGED cli

\* HttpClient::request, first half: self.send(request)? writes and flushes
ClientRequestSend(req, order) ==
    /\ cli.pc = "idle"
    /\ cli.id = conn
    /\ cli.calls < MaxRequests
    /\ stream' = [stream EXCEPT !.sent = @ \o ClientSend(req, order)]
    /\ cli' = [cli EXCEPT !.pc = "recv", !.req = req, !.calls = @ + 1,
                          !.nreq = @ + 1]
    /\ UNCHANGED <<listen, listenErr, conn, chunks, srv, exch>>

\* HttpClient::request when the write fails on a stream the server has left
ClientRequestSendFails ==
    /\ cli.pc = "idle"
    /\ ServerClosed
    /\ cli.calls < MaxRequests
    /\ cli' = [cli EXCEPT !.res = Err(IOError), !.calls = @ + 1]
    /\ UNCHANGED serverVars

\* HttpClient::request, second half: self.recv(); its reads return once the
\* server has written the response and dropped the stream.  The BufReader of
\* this call takes what the stream holds and is dropped with it.
ClientRequestRecv ==
    /\ cli.pc = "recv"
    /\ ServerClosed
    /\ LET r == ClientRecv(ClientUnread)
       IN  cli' = [cli EXCEPT !.pc = "idle",
                              !.res = r.result,
                              !.nres = IF r.result.ok THEN @ + 1 ELSE @,
                              !.rpos = Len(stream.out)]
    /\ UNCHANGED serverVars

\* the caller drops the HttpClient, which closes its TcpStream
ClientDrop ==
    /\ cli.pc = "idle"
    /\ cli.id = conn
    /\ cli' = [cli EXCEPT !.pc = "dropped"]
    /\ stream' = [stream EXCEPT !.status =
                     IF @ = "open" THEN "closed" ELSE @]
    /\ UNCHANGED <<listen, listenErr, conn, chunks, srv, exch>>

ClientServerNext ==
    \/ ClientNew /\ UNCHANGED <<routerVars, codecVars>>
    \/ ClientAccepted /\ UNCHANGED <<routerVars, codecVars>>
    \/ \E req \in ClientRequests : \E order \in Orders(DOMAIN req.headers) :
          ClientRequestSend(req, order) /\ UNCHANGED <<routerVars, codecVars>>
    \/ ClientRequestSendFails /\ UNCHANGED <<routerVars, codecVars>>
    \/ ClientRequestRecv /\ UNCHANGED <<routerVars, codecVars>>
    \/ ClientDrop /\ UNCHANGED <<routerVars, codecVars>>
    \/ RecvRequestLine /\ UNCHANGED <<routerVars, codecVars, clientVars>>
    \/ RecvHeaderLine /\ UNCHANGED <<routerVars, codecVars, clientVars>>

ClientServerSpec == ClientServerInit /\ [][ClientServerNext]_vars

\* C11: on one connection (one HttpClient and its TcpStream) at most one
\* request is written and at most one response is read, whatever calls the
\* caller makes.  HttpClient::request takes &self and is public, so the
\* caller may call it again on the same client: the statement is violated.
C11_OneExchangePerConnection ==
    /\ cli.nreq <= 1
    /\ cli.nres <= 1

\* C12: when content-length is N > 0 and the stream ends after fewer than N
\* body bytes, HttpServer::recv fails with HttpError::IOError and returns no
\* Request.  read_to_end returns Ok with the bytes it got, so recv returns a
\* Request with the shorter body: the statement is violated.
C12_ShortBodyIsIOError ==
    ( /\ srv.pc = "done"
      /\ exch.bodyStart > 0
      /\ ContentLength(srv.headers).some
      /\ ContentLength(srv.headers).v > 0
      /\ stream.status = "closed"
      /\ Len(stream.sent) - exch.bodyStart < ContentLength(srv.headers).v )
    => exch.recv = Err(IOError)

\* C13: with the single rule (GET, "/ok") whose handler returns HTTP/1.1, OK,
\* no headers and an empty body, a client request GET /ok HTTP/1.1 makes the
\* server write exactly `HTTP/1.1 200 OK\r\ncontent-length: 0\r\n\r\n`, and
\* the client decodes that to version HTTP/1.1, status OK and an empty body.
GetOkRequest == Request("GET", PathOk, "HTTP1_1", NewHeaders, <<>>)

OkResponseBytes ==
    <<"H", "T", "T", "P", "/", "1", ".", "1", " ", "2", "0", "0", " ", "O", "K",
      CR, LF,
      "c", "o", "n", "t", "e", "n", "t", "-", "l", "e", "n", "g", "t", "h", ":",
      " ", "0", CR, LF,
      CR, LF>>

\* the first request() on an accepted connection was the GET /ok of the claim
GetOkCase ==
    /\ rules = SingleRule
    /\ cli.id = conn
    /\ cli.calls = 1
    /\ cli.nreq = 1
    /\ cli.req = GetOkRequest

C13_EndToEndOk ==
    /\ (GetOkCase /\ srv.pc = "done") => stream.out = OkResponseBytes
    /\ (GetOkCase /\ cli.pc \in {"idle", "dropped"})
       => /\ cli.res.ok
          /\ cli.res.val.version = "HTTP1_1"
          /\ cli.res.val.status = "Ok"
          /\ cli.res.val.body = <<>>

C13_Witness ==
    /\ GetOkCase
    /\ cli.pc = "idle"
    /\ cli.res.ok
    /\ stream.out = OkResponseBytes

\* C14: the server never has two connections in progress: a connection is
\* accepted only while listen is blocked in incoming(), and, after the first,
\* only once self.handle has returned for the connection before it (its
\* response written and flushed).  While handle waits for a stalled peer no
\* connection is accepted.
C14_OneConnectionAtATime ==
    [][ conn' # conn
        => /\ conn' = conn + 1
           /\ listen = "accept"
           /\ (conn > 0 => (srv.pc = "done" /\ exch.ret # NoValue)) ]_vars

\* the second connection has been accepted and its peer has sent nothing
C14_Witness ==
    /\ conn = 2
    /\ listen = "handle"
    /\ srv.pc = "request_line"
    /\ ~LineReady

\* C15: when the client has sent a well-formed request with a non-empty body
\* and waits for the response without closing, the exchange goes on: the
\* system never reaches a state in which the server waits for the end of the
\* stream while the client waits for the response.  HttpServer::recv reads
\* the body with read_to_end, so that state is reached: the statement is
\* violated.
C15_NoMutualWait ==
    ~ ( /\ cli.pc = "recv"
        /\ cli.id = conn
        /\ cli.req.body # <<>>
        /\ listen = "handle"
        /\ srv.pc = "body"
        /\ stream.status = "open"
        /\ Len(Unread) >= ContentLength(srv.headers).v )

\* C16: the UNSUPPORTED sentinel is never encoded: the status line written by
\* HttpServer::send and the request line written by HttpClient::send carry
\* the version token HTTP/1.0 or HTTP/1.1, whatever message they are given.
\* Both write version.to_string() unchecked, so a message built with
\* HttpVersion::UNSUPPORTED is written with that word: the statement is
\* violated.
C16_SentinelNeverEncoded ==
    (cpc # "init" /\ cmsg.kind \in {"request", "response"})
    => LET tok == Splitn(TrimEndCRLF(ReadLine(cwire).line), 3, SP)
           version == IF cmsg.kind = "request" THEN tok[Len(tok)] ELSE tok[1]
       IN  version \in {Http10Token, Http11Token}

(***************************************************************************)
(* The decoders on their own: a peer that is not this crate writes a       *)
(* stream and closes it, and HttpServer::recv, HttpClient::recv or         *)
(* HttpHeaders::read_from reads it from its first byte                     *)
(***************************************************************************)
MaxTail == 2

\* first lines: none, two request lines, status lines with a reason of two
\* words, with a reason that is not the status's own, without a reason, with
\* an unknown version, with an unknown status, and one that the stream cuts
RawStartLines ==
    { <<>>,
      GetToken \o <<SP>> \o PathOk \o <<SP>> \o Http11Token \o CRLF,
      PostToken \o <<SP>> \o PathOk \o <<SP>> \o Http10Token \o CRLF,
      Http11Token \o <<SP, "4", "0", "4", SP, "N", "o", "t", SP,
                      "F", "o", "u", "n", "d">> \o CRLF,
      Http10Token \o <<SP, "2", "0", "0", SP, "F", "i", "n", "e">> \o CRLF,
      Http11Token \o <<SP, "2", "0", "0">> \o CRLF,
      <<"H", "T", "T", "P", "/", "2", SP, "2", "0", "0", SP, "O", "K">> \o CRLF,
      Http11Token \o <<SP, "5", "0", "0", SP, "O", "o", "p", "s">> \o CRLF,
      Http11Token }

\* header blocks: nothing, the blank line alone, a header without the blank
\* line, a header, a line without a colon, content-length twice in two letter
\* cases (both orders), a value with spaces before it and a colon in it, a
\* bare line feed, a header line that ends in a bare line feed
RawHeaderBlocks ==
    { <<>>,
      CRLF,
      <<"x", ":", SP, "a">> \o CRLF,
      <<"x", ":", SP, "a">> \o CRLF \o CRLF,
      <<"x">> \o CRLF \o CRLF,
      <<"C", "o", "n", "t", "e", "n", "t", "-", "L", "e", "n", "g", "t", "h",
        ":", SP, "1">> \o CRLF
        \o ContentLengthKey \o <<":", SP, "0">> \o CRLF \o CRLF,
      ContentLengthKey \o <<":", SP, "0">> \o CRLF
        \o <<"C", "O", "N", "T", "E", "N", "T", "-", "L", "E", "N", "G", "T", "H",
             ":", "1">> \o CRLF \o CRLF,
      <<"X", ":", SP, SP, "a", ":", "b">> \o CRLF \o CRLF,
      <<LF>> \o CRLF,
      <<"x", ":", SP, "a", LF>> \o CRLF }

RawTails == {[i \in 1..n |-> "a"] : n \in 0..MaxTail}

RawStreams ==
    {l \o h \o t : l \in RawStartLines, h \in RawHeaderBlocks, t \in RawTails}

DecodeInit ==
    /\ rules = RouterNew
    /\ rreq = NoValue
    /\ rres = NoValue
    /\ invoked = <<>>
    /\ ServerIdle
    /\ CodecIdle
    /\ ClientIdle

\* the peer writes `w` and closes the stream
PeerSendsRaw(w) ==
    /\ cpc = "init"
    /\ cmsg' = [kind |-> "raw", by |-> "nobody"]
    /\ cwire' = w
    /\ cpc' = "sent"
    /\ UNCHANGED <<cextra, cdec>>

\* HttpServer::recv on the stream
ServerRecvRaw ==
    /\ cpc = "sent"
    /\ cmsg.kind = "raw"
    /\ cmsg' = [cmsg EXCEPT !.by = "server"]
    /\ cdec' = ServerRecv(cwire)
    /\ cpc' = "received"
    /\ UNCHANGED <<cwire, cextra>>

\* HttpClient::recv on the stream
ClientRecvRaw ==
    /\ cpc = "sent"
    /\ cmsg.kind = "raw"
    /\ cmsg' = [cmsg EXCEPT !.by = "client"]
    /\ cdec' = ClientRecv(cwire)
    /\ cpc' = "received"
    /\ UNCHANGED <<cwire, cextra>>

\* HttpHeaders::new().read_from on the stream
HeadersReadRaw ==
    /\ cpc = "sent"
    /\ cmsg.kind = "raw"
    /\ cmsg' = [cmsg EXCEPT !.by = "headers"]
    /\ LET hr == HeadersReadFrom(NewHeaders, cwire)
       IN  cdec' = [result |-> hr.result, rest |-> hr.rest,
                    bodyStart |-> Len(cwire) - Len(hr.rest)]
    /\ cpc' = "received"
    /\ UNCHANGED <<cwire, cextra>>

DecodeNext ==
    \/ \E w \in RawStreams :
          PeerSendsRaw(w) /\ UNCHANGED <<routerVars, serverVars, clientVars>>
    \/ ServerRecvRaw /\ UNCHANGED <<routerVars, serverVars, clientVars>>
    \/ ClientRecvRaw /\ UNCHANGED <<routerVars, serverVars, clientVars>>
    \/ HeadersReadRaw /\ UNCHANGED <<routerVars, serverVars, clientVars>>

DecodeSpec == DecodeInit /\ [][DecodeNext]_vars

(***************************************************************************)
(* Claims about the decoders                                               *)
(***************************************************************************)
DecodedBy(who) == cpc = "received" /\ cmsg.kind = "raw" /\ cmsg.by = who

\* the positions of `buf` at which a line starts
LineStarts(buf) ==
    {s \in 1..Len(buf) : s = 1 \/ buf[s - 1] = LF}

\* the line that starts at s, its terminator included
LineAt(buf, s) ==
    LET ends == {e \in s..Len(buf) : buf[e] = LF}
    IN  IF ends = {} THEN SubSeq(buf, s, Len(buf))
        ELSE SubSeq(buf, s, CHOOSE e \in ends : \A f \in ends : e <= f)

\* an empty line: CR LF at the start of a line
EmptyLineAt(buf, s) == s \in LineStarts(buf) /\ IsCRLFAt(buf, s)
HasEmptyLine(buf) == \E s \in 1..Len(buf) : EmptyLineAt(buf, s)
FirstEmptyLine(buf) ==
    CHOOSE s \in 1..Len(buf) :
        EmptyLineAt(buf, s) /\ \A t \in 1..(s - 1) : ~EmptyLineAt(buf, t)

\* where the lines before the first empty line start
HeaderLineStarts(buf) == {s \in LineStarts(buf) : s < FirstEmptyLine(buf)}

\* the block has its empty line and every line before it has a colon
WellFormedBlock(buf) ==
    /\ HasEmptyLine(buf)
    /\ \A s \in HeaderLineStarts(buf) : Contains(LineAt(buf, s), ":")

StatusLineTokens == Splitn(TrimEndCRLF(ReadLine(cwire).line), 3, SP)

BadStatusLine ==
    \/ StatusLineTokens[1] \notin {Http10Token, Http11Token}
    \/ Len(StatusLineTokens) < 2
    \/ StatusLineTokens[2] \notin {<<"2", "0", "0">>, <<"4", "0", "4">>}

\* C17: HttpClient::recv fails with HttpSyntaxError, returning no Response,
\* when the version token of the status line is not HTTP/1.0 or HTTP/1.1 or
\* its status token is not 200 or 404; a status line of three tokens with a
\* supported version and status decodes to them whatever the reason phrase.
C17_StatusLine ==
    DecodedBy("client") =>
        /\ BadStatusLine => cdec.result = Err(HttpSyntaxError)
        /\ ( /\ ~BadStatusLine
             /\ Len(StatusLineTokens) = 3
             /\ WellFormedBlock(ReadLine(cwire).rest) )
           => /\ cdec.result.ok
              /\ cdec.result.val.version =
                    (IF StatusLineTokens[1] = Http10Token
                     THEN "HTTP1_0" ELSE "HTTP1_1")
              /\ cdec.result.val.status =
                    (IF StatusLineTokens[2] = <<"2", "0", "0">>
                     THEN "Ok" ELSE "NotFound")

\* a status 200 with a reason that is not OK has been decoded
C17_Witness ==
    /\ DecodedBy("client")
    /\ ~BadStatusLine
    /\ Len(StatusLineTokens) = 3
    /\ StatusLineTokens[3] = <<"F", "i", "n", "e">>
    /\ cdec.result.ok
    /\ cdec.result.val.status = "Ok"

\* C18: when the stream is closed before any byte (zero bytes are read for
\* the request line or the status line), HttpServer::recv and
\* HttpClient::recv fail with HttpSyntaxError: neither returns a message.
C18_EmptyStreamIsSyntaxError ==
    (cwire = <<>> /\ (DecodedBy("server") \/ DecodedBy("client")))
    => cdec.result = Err(HttpSyntaxError)

C18_Witness ==
    /\ cwire = <<>>
    /\ DecodedBy("server")
    /\ ~cdec.result.ok

\* C19: HttpHeaders::read_from reads lines up to the first empty line and
\* succeeds only when it reaches one: a line without a colon before it, or the
\* end of the stream before it, gives HttpSyntaxError.  It consumes the empty
\* line and nothing after it.
C19_HeaderBlock ==
    DecodedBy("headers") =>
        IF WellFormedBlock(cwire)
        THEN /\ cdec.result.ok
             /\ cdec.bodyStart = FirstEmptyLine(cwire) + 1
             /\ cdec.rest = SubSeq(cwire, FirstEmptyLine(cwire) + 2, Len(cwire))
        ELSE cdec.result = Err(HttpSyntaxError)

\* a block with a header has been read and bytes follow its empty line
C19_Witness ==
    /\ DecodedBy("headers")
    /\ WellFormedBlock(cwire)
    /\ HeaderLineStarts(cwire) # {}
    /\ cdec.result.ok
    /\ cdec.rest # <<>>

\* the name and the value a header line CR LF-terminated stands for
HeaderLineName(l) == ToAsciiLowercase(SubSeq(l, 1, FirstIndex(l, ":") - 1))
HeaderLineValue(l) == TrimStart(SubSeq(l, FirstIndex(l, ":") + 1, Len(l) - 2))

\* the header lines of the block, by where they start
NameAt(s) == HeaderLineName(LineAt(cwire, s))
ValueAt(s) == HeaderLineValue(LineAt(cwire, s))
LastWithName(n) ==
    CHOOSE s \in HeaderLineStarts(cwire) :
        /\ NameAt(s) = n
        /\ \A t \in HeaderLineStarts(cwire) : NameAt(t) = n => t <= s

\* every header line of the block ends in CR LF
CRLFTerminated ==
    \A s \in HeaderLineStarts(cwire) :
        IsCRLFAt(LineAt(cwire, s), Len(LineAt(cwire, s)) - 1)

\* C20: HttpHeaders::read_from stores each header under its lower-cased name
\* with the text after the first colon, leading whitespace trimmed, as the
\* value; lines whose names differ only in letter case make one entry with
\* the value of the last, so Content-Length and content-length are the one
\* key that content_length() and the encoders' contains_key look up.
C20_LowerCasedLastWins ==
    (DecodedBy("headers") /\ cdec.result.ok /\ CRLFTerminated) =>
        LET headers == cdec.result.val
            starts == HeaderLineStarts(cwire)
        IN  /\ DOMAIN headers = {NameAt(s) : s \in starts}
            /\ \A s \in starts : headers[NameAt(s)] = ValueAt(LastWithName(NameAt(s)))
            /\ (\E s \in starts : NameAt(s) = ContentLengthKey)
               => /\ ContainsKey(headers, ContentLengthKey)
                  /\ ContentLength(headers) =
                        ParseUsize(ValueAt(LastWithName(ContentLengthKey)))

\* two lines name content-length in different letter cases with different
\* values, and the block has been read
C20_Witness ==
    /\ DecodedBy("headers")
    /\ cdec.result.ok
    /\ CRLFTerminated
    /\ \E s, t \in HeaderLineStarts(cwire) :
          /\ s < t
          /\ NameAt(s) = ContentLengthKey
          /\ NameAt(t) = ContentLengthKey
          /\ LineAt(cwire, s)[1] # LineAt(cwire, t)[1]
          /\ ValueAt(s) # ValueAt(t)
          /\ ContentLength(cdec.result.val) = ParseUsize(ValueAt(t))

(***************************************************************************)
(* Either end of a connection facing a peer that is not this crate: the    *)
(* server as in Spec, or a client whose request() reads the response as    *)
(* the responder writes it, stalls, closes or resets.  A process is the    *)
(* one or the other.  cli.rpos is how far the reader handed to             *)
(* HttpClient::recv has been read.                                         *)
(***************************************************************************)
\* What a responder writes in one write: a status line, a content-length
\* line (zero, non-zero, unparsable), the blank line, or one byte
ResponseChunks ==
    { Http11Token \o <<SP, "2", "0", "0", SP, "O", "K">> \o CRLF,
      Http10Token \o <<SP, "4", "0", "4", SP, "N", "o", "t", SP,
                      "F", "o", "u", "n", "d">> \o CRLF,
      ContentLengthKey \o <<":", SP, "0">> \o CRLF,
      <<"C", "o", "n", "t", "e", "n", "t", "-", "L", "e", "n", "g", "t", "h",
        ":", SP, "1">> \o CRLF,
      ContentLengthKey \o <<":", SP, "z">> \o CRLF,
      CRLF,
      <<"a">> }

\* HttpClient::recv is in progress
ClientReceiving == cli.pc \in {"status_line", "headers", "body"}

\* read_line and read_to_end block while the stream is open and the bytes
\* they wait for have not come
ClientLineReady == Contains(ClientUnread, LF) \/ stream.status = "closed"
ClientEndReady == stream.status = "closed"

\* HttpClient::new towards the responder
ClientConnectsOut ==
    /\ cli.pc = "none"
    /\ listen = "accept"
    /\ conn = 0
    /\ cli' = [NoClient EXCEPT !.pc = "idle"]
    /\ UNCHANGED serverVars

\* HttpClient::request, first half, the first call on the connection
ClientSendsOut(req, order) ==
    /\ cli.pc = "idle"
    /\ conn = 0
    /\ cli.calls = 0
    /\ stream' = [stream EXCEPT !.sent = ClientSend(req, order)]
    /\ cli' = [cli EXCEPT !.pc = "status_line", !.req = req, !.calls = 1,
                          !.nreq = 1]
    /\ UNCHANGED <<listen, listenErr, conn, chunks, srv, exch>>

ResponderWrites(c) ==
    /\ ClientReceiving
    /\ stream.status = "open"
    /\ chunks < MaxChunks
    /\ stream' = [stream EXCEPT !.out = @ \o c]
    /\ chunks' = chunks + 1
    /\ UNCHANGED <<listen, listenErr, conn, srv, exch, cli>>

ResponderCloses ==
    /\ ClientReceiving
    /\ stream.status = "open"
    /\ stream' = [stream EXCEPT !.status = "closed"]
    /\ UNCHANGED <<listen, listenErr, conn, chunks, srv, exch, cli>>

ResponderResets ==
    /\ ClientReceiving
    /\ stream.status = "open"
    /\ stream' = [stream EXCEPT !.status = "reset"]
    /\ UNCHANGED <<listen, listenErr, conn, chunks, srv, exch, cli>>

\* HttpClient::recv, and with it request(), returns `res` after reading `n`
\* more bytes
ClientReturns(res, n, bodyStart) ==
    /\ cli' = [cli EXCEPT !.pc = "idle",
                          !.res = res,
                          !.nres = IF res.ok THEN @ + 1 ELSE @,
                          !.rpos = @ + n,
                          !.bodyStart = bodyStart]
    /\ UNCHANGED serverVars

\* HttpClient::recv: read_line and the parsing of the status line
ClientRecvStatusLine ==
    /\ cli.pc = "status_line"
    /\ ClientLineReady
    /\ LET rl == ReadLine(ClientUnread)
           pl == ParseStatusLine(rl.line)
       IN  IF pl.ok
           THEN /\ cli' = [cli EXCEPT !.pc = "headers", !.head = pl.val,
                                      !.headers = NewHeaders,
                                      !.rpos = @ + Len(rl.line)]
                /\ UNCHANGED serverVars
           ELSE ClientReturns(pl, Len(rl.line), 0)

\* HttpClient::recv: one iteration of the loop of headers.read_from and, at
\* the blank line, the body that needs no read
ClientRecvHeaderLine ==
    /\ cli.pc = "headers"
    /\ ClientLineReady
    /\ LET rl == ReadLine(ClientUnread)
           hl == ParseHeaderLine(rl.line)
           end == cli.rpos + Len(rl.line)
       IN  CASE hl.kind = "err" ->
                    ClientReturns(Err(HttpSyntaxError), Len(rl.line), 0)
             [] hl.kind = "header" ->
                    /\ cli' = [cli EXCEPT !.headers = Insert(@, hl.key, hl.value),
                                          !.rpos = end]
                    /\ UNCHANGED serverVars
             [] OTHER ->
                    IF ClientBodyMode(cli.headers) = "empty"
                    THEN ClientReturns(Ok(Response(cli.head.version, cli.head.status,
                                                   cli.headers, <<>>)),
                                       Len(rl.line), end)
                    ELSE /\ cli' = [cli EXCEPT !.pc = "body", !.rpos = end,
                                               !.bodyStart = end]
                         /\ UNCHANGED serverVars

\* HttpClient::recv: reader.read_to_end(&mut body)
ClientRecvBody ==
    /\ cli.pc = "body"
    /\ ClientEndReady
    /\ ClientReturns(Ok(Response(cli.head.version, cli.head.status, cli.headers,
                                 ClientUnread)),
                     Len(ClientUnread), cli.bodyStart)

\* a read on a connection the responder has reset fails
ClientRecvIOError ==
    /\ ClientReceiving
    /\ stream.status = "reset"
    /\ ClientReturns(Err(IOError), 0, cli.bodyStart)

StreamNext ==
    \/ cli.pc = "none" /\ Next
    \/ ClientConnectsOut /\ UNCHANGED <<routerVars, codecVars>>
    \/ \E order \in Orders(DOMAIN GetOkRequest.headers) :
          ClientSendsOut(GetOkRequest, order) /\ UNCHANGED <<routerVars, codecVars>>
    \/ \E c \in ResponseChunks :
          ResponderWrites(c) /\ UNCHANGED <<routerVars, codecVars>>
    \/ ResponderCloses /\ UNCHANGED <<routerVars, codecVars>>
    \/ ResponderResets /\ UNCHANGED <<routerVars, codecVars>>
    \/ ClientRecvStatusLine /\ UNCHANGED <<routerVars, codecVars>>
    \/ ClientRecvHeaderLine /\ UNCHANGED <<routerVars, codecVars>>
    \/ ClientRecvBody /\ UNCHANGED <<routerVars, codecVars>>
    \/ ClientRecvIOError /\ UNCHANGED <<routerVars, codecVars>>

StreamSpec == Init /\ [][StreamNext]_vars

ClientReturned == cli.pc = "idle" /\ cli.res # NoValue
ClientDecoded == ClientReturned /\ cli.res.ok
IsZero(cl) == cl.some /\ cl.v = 0

C22_NoLengthReadsToEnd ==
    (ClientDecoded /\ ~ContentLength(cli.res.val.headers).some)
    => /\ stream.status = "closed"
       /\ cli.bodyStart > 0
       /\ cli.res.val.body =
             SubSeq(stream.out, cli.bodyStart + 1, Len(stream.out))

\* a response whose content-length does not parse has been returned with a body
C22_Witness ==
    /\ ClientDecoded
    /\ ContainsKey(cli.res.val.headers, ContentLengthKey)
    /\ ~ContentLength(cli.res.val.headers).some
    /\ cli.res.val.body # <<>>

\* C23: the rule list of the router is append-only: Router::add(method,
\* path, handler) puts exactly one rule with that method and path at the end
\* and leaves the earlier rules and their order as they were, and
\* Router::handle leaves the list unchanged whether or not a rule matches.
C23_RulesAppendOnly ==
    [][ /\ rules' # rules
           => /\ Len(rules') = Len(rules) + 1
              /\ SubSeq(rules', 1, Len(rules)) = rules
              /\ \A m \in HttpMethod, p \in RoutePaths, h \in Handlers :
                    RouterAdd(m, p, h)
                    => /\ rules'[Len(rules')].method = m
                       /\ rules'[Len(rules')].path = p
        /\ (rreq' # rreq \/ rres' # rres \/ invoked' # invoked)
           => rules' = rules ]_vars

\* two rules have been added, the second unlike the first, and a request
\* that matches neither has been dispatched on them
C23_Witness ==
    /\ Len(rules) = 2
    /\ rules[1] # rules[2]
    /\ rreq # NoValue
    /\ rreq.rules = rules
    /\ MatchingRules(rules, rreq.req) = {}

\* what send wrote before the body, and where its content-length lines start
WrittenHead == SubSeq(cwire, 1, Len(cwire) - Len(cmsg.msg.body))
ContentLengthLines ==
    {s \in LineStarts(WrittenHead) \ {1} :
        /\ Contains(LineAt(WrittenHead, s), ":")
        /\ HeaderLineName(LineAt(WrittenHead, s)) = ContentLengthKey}

\* C24: every message written by HttpClient::send or HttpServer::send has
\* exactly one content-length line: the entry of the header collection when
\* it holds one, with no computed line beside it, and the computed line when
\* it does not; never two.
C24_OneContentLengthLine ==
    cpc # "init" =>
        /\ Cardinality(ContentLengthLines) = 1
        /\ \A s \in ContentLengthLines :
              LineAt(WrittenHead, s) =
                 ContentLengthPrefix
                 \o (IF ContainsKey(cmsg.msg.headers, ContentLengthKey)
                     THEN cmsg.msg.headers[ContentLengthKey]
                     ELSE FormatUsize(Len(cmsg.msg.body)))
                 \o CRLF

\* a request whose headers hold a content-length that is not the length of
\* its body has been written
C24_Witness ==
    /\ cpc = "sent"
    /\ cmsg.kind = "request"
    /\ ContainsKey(cmsg.msg.headers, ContentLengthKey)
    /\ cmsg.msg.headers[ContentLengthKey] # FormatUsize(Len(cmsg.msg.body))
    /\ Cardinality(ContentLengthLines) = 1

====
